---- MODULE Spec2Model ----
(***************************************************************************)
(* Model of the SOCI artifact fetcher (fs/artifact_fetcher.go) and of the  *)
(* retry policy of the retryable HTTP client.                              *)
(*                                                                         *)
(* FetchSociArtifacts is a sequential process that fetches, decodes and    *)
(* caches the index and then fans out one errgroup task per listed blob.   *)
(* The resolver, the remote store and the local store are capabilities of  *)
(* the environment: every blocking call on them is one step whose outcome  *)
(* is drawn from the outcomes that capability can produce.                 *)
(***************************************************************************)
EXTENDS Integers, Sequences, FiniteSets, TLC

\* Longest blob list an index carries (one errgroup task per entry).
MaxBlobs == 2

IndexDigest == "idx"
BlobDigests == {"b1", "b2"}
Digests == {IndexDigest} \cup BlobDigests

\* Process 0 is the Fetch of the index made by FetchSociArtifacts itself;
\* processes 1..MaxBlobs are the errgroup tasks.
Tasks == 1..MaxBlobs
Procs == 0..MaxBlobs

(***************************************************************************)
(* Bytes.  Content is a sequence of tokens.  An encoded index is a header  *)
(* token followed by one entry token per blob descriptor; anything else    *)
(* does not decode.                                                        *)
(***************************************************************************)
Header == [tag |-> "soci", digest |-> "", size |-> 0]
Junk == [tag |-> "junk", digest |-> "", size |-> 0]
Data(d) == [tag |-> "data", digest |-> d, size |-> 0]
Entry(d, s) == [tag |-> "blob", digest |-> d, size |-> s]

\* The bytes of blob d, and their length.
BlobContent(d) == <<Data(d)>>
BlobSize(d) == Len(BlobContent(d))

\* The blob descriptors an index lists: b1 with its real size, b2 with no
\* size (0), which sends its Fetch through the resolver.
EntryTokens == {Entry("b1", BlobSize("b1")), Entry("b2", 0)}

\* The tasks of one errgroup are interchangeable, so blob lists are taken up
\* to the order of their entries: entries come in the order of Rank.
Rank(t) == IF t.digest = "b1" THEN 0 ELSE 1

SeqsUpTo(S, n) ==
    UNION {{s \in [1..k -> S] : \A i \in 1..(k - 1) : Rank(s[i]) <= Rank(s[i + 1])} : k \in 0..n}

\* The index bytes a registry may serve.
IndexBytes == {<<Junk>>} \cup {<<Header>> \o s : s \in SeqsUpTo(EntryTokens, MaxBlobs)}

\* The environments: a healthy one, one with a single digest the registry
\* cannot serve validly, and one with a faulty local store.
Worlds ==
    {[bad |-> {}, faulty |-> f] : f \in BOOLEAN}
        \cup {[bad |-> {d}, faulty |-> FALSE] : d \in Digests}

Descriptor(d, s) == [digest |-> d, size |-> s]

NoErr == [kind |-> "nil", who |-> 0]
Err(k, p) == [kind |-> k, who |-> p]
NoResult == [kind |-> "none", who |-> 0]
Success == [kind |-> "ok", who |-> 0]

NoStream == [state |-> "none", data |-> <<>>]

VARIABLES
    \* the environment
    bad,             \* digests the registry cannot serve validly
    faulty,          \* the local store may fail an operation
    remoteIndex,     \* the bytes the registry holds under the index digest
    hung,            \* digests the registry never answers for
    \* the local content store
    local,           \* digest -> [has, data]
    pushLog,         \* the pushes issued in the current call
    \* FetchSociArtifacts
    mpc, result, callerCancelled, indexBytes, blobs, localAtCall, later,
    \* the errgroup
    gerr, groupCancelled, firstFailed,
    \* one Fetch per process
    pc, desc, rc, isLocal, ferr, trace, terr,
    \* what an earlier successful call fetched from remote
    hist,
    \* the retry policy
    rs

envVars == <<bad, faulty, remoteIndex, hung>>
storeVars == <<local, pushLog>>
mainVars == <<mpc, result, callerCancelled, indexBytes, blobs, localAtCall, later>>
groupVars == <<gerr, groupCancelled, firstFailed>>
procVars == <<pc, desc, rc, isLocal, ferr, trace, terr>>
vars == <<envVars, storeVars, mainVars, groupVars, procVars, hist, rs>>

\* The content a digest names.
ContentOf(d) == IF d = IndexDigest THEN remoteIndex ELSE BlobContent(d)

Present == {d \in Digests : local[d].has}

(***************************************************************************)
(* Contexts.  The index Fetch and the index push run under the caller's    *)
(* context; every task runs under the errgroup's context, which is         *)
(* cancelled with the caller's and by the first task error.                *)
(***************************************************************************)
\* The errgroup's context derived from a fresh context, not the caller's.
TaskContextDetached(p) == IF p = 0 THEN callerCancelled ELSE groupCancelled

Cancelled(p) == IF p = 0 THEN callerCancelled ELSE callerCancelled \/ groupCancelled

(***************************************************************************)
(* Outcomes of the capabilities.                                           *)
(***************************************************************************)
\* localStore.Fetch: the stream of a present digest, NotFound for an absent
\* one, or another error when the store is faulty or the context cancelled.
LocalFetchOutcomes(d, cancelled) ==
    (IF local[d].has THEN {"ok"} ELSE {"miss"})
        \cup (IF faulty \/ cancelled THEN {"err"} ELSE {})

\* resolver.Resolve: a network call; fails under a cancelled context, may
\* fail for a digest the registry cannot serve, and does not return (no
\* outcome) while the registry does not answer.
ResolveOutcomes(d, cancelled) ==
    IF cancelled THEN {"fail"}
    ELSE IF d \in hung THEN {}
    ELSE IF d \in bad THEN {"ok", "fail"} ELSE {"ok"}

\* remoteStore.Fetch: as the resolver.
RemoteFetchOutcomes(d, cancelled) ==
    IF cancelled THEN {"fail"}
    ELSE IF d \in hung THEN {}
    ELSE IF d \in bad THEN {"ok", "fail"} ELSE {"ok"}

\* localStore.Push: rejects content that does not verify against its digest;
\* may fail when the store is faulty, the context is cancelled (the stream
\* it reads is aborted) or the digest is already present.
PushOutcomes(d, cancelled) ==
    IF d \in bad THEN {"fail"}
    ELSE {"ok"} \cup (IF faulty \/ cancelled \/ local[d].has THEN {"fail"} ELSE {})

\* io.Copy of the index stream into the buffer.
ReadOutcomes(fromLocal) ==
    {"ok"} \cup (IF (fromLocal /\ faulty)
                      \/ (~fromLocal /\ (IndexDigest \in bad \/ callerCancelled))
                   THEN {"fail"} ELSE {})

\* json.Unmarshal of the buffered bytes into a SociIndex.
JsonUnmarshal(bytes) ==
    IF /\ Len(bytes) >= 1
       /\ bytes[1] = Header
       /\ \A i \in 2..Len(bytes) : bytes[i].tag = "blob"
    THEN [err |-> FALSE,
          blobs |-> [i \in 1..(Len(bytes) - 1) |->
                        Descriptor(bytes[i + 1].digest, bytes[i + 1].size)]]
    ELSE [err |-> TRUE, blobs |-> <<>>]

(***************************************************************************)
(* artifactFetcher.Fetch, one step per blocking call.                      *)
(***************************************************************************)
\* A Fetch that never takes the local shortcut.
LocalHitIgnored(out) == FALSE

\* `if err == nil` after localStore.Fetch.
LocalHit(out) == out = "ok"

\* A Fetch that resolves every descriptor.
ResolveAlways(d) == TRUE

\* `if desc.Size == 0`.
NeedsResolve(d) == d.size = 0

\* A Fetch that goes on to the remote store after a failed resolution.
ResolveFailureIgnored(out) == FALSE

\* `if err != nil` after f.resolve.
ResolveFailed(out) == out # "ok"

\* `if err != nil` after remoteStore.Fetch.
RemoteFailed(out) == out # "ok"

FetchLocal(p) ==
    /\ pc[p] = "local"
    /\ \E out \in LocalFetchOutcomes(desc[p].digest, Cancelled(p)) :
        /\ trace' = [trace EXCEPT ![p] = Append(@, "local_" \o out)]
        /\ IF LocalHit(out)
           THEN /\ rc' = [rc EXCEPT ![p] = [state |-> "open", data |-> local[desc[p].digest].data]]
                /\ isLocal' = [isLocal EXCEPT ![p] = TRUE]
                /\ pc' = [pc EXCEPT ![p] = "fetched"]
           ELSE /\ pc' = [pc EXCEPT ![p] = IF NeedsResolve(desc[p]) THEN "resolve" ELSE "remote"]
                /\ UNCHANGED <<rc, isLocal>>
    /\ UNCHANGED <<envVars, storeVars, mainVars, groupVars, desc, ferr, terr, hist, rs>>

FetchResolve(p) ==
    /\ pc[p] = "resolve"
    /\ \E out \in ResolveOutcomes(desc[p].digest, Cancelled(p)) :
        /\ trace' = [trace EXCEPT ![p] = Append(@, "resolve_" \o out)]
        /\ IF ResolveFailed(out)
           THEN /\ ferr' = [ferr EXCEPT ![p] = Err("resolve", p)]
                /\ pc' = [pc EXCEPT ![p] = "fetched"]
                /\ UNCHANGED desc
           ELSE /\ desc' = [desc EXCEPT ![p] = Descriptor(@.digest, Len(ContentOf(@.digest)))]
                /\ pc' = [pc EXCEPT ![p] = "remote"]
                /\ UNCHANGED ferr
    /\ UNCHANGED <<envVars, storeVars, mainVars, groupVars, rc, isLocal, terr, hist, rs>>

FetchRemote(p) ==
    /\ pc[p] = "remote"
    /\ \E out \in RemoteFetchOutcomes(desc[p].digest, Cancelled(p)) :
        /\ trace' = [trace EXCEPT ![p] = Append(@, "remote_" \o out)]
        /\ IF RemoteFailed(out)
           THEN /\ ferr' = [ferr EXCEPT ![p] = Err("remote", p)]
                /\ UNCHANGED <<rc, isLocal>>
           ELSE /\ rc' = [rc EXCEPT ![p] = [state |-> "open", data |-> ContentOf(desc[p].digest)]]
                /\ isLocal' = [isLocal EXCEPT ![p] = FALSE]
                /\ UNCHANGED ferr
        /\ pc' = [pc EXCEPT ![p] = "fetched"]
    /\ UNCHANGED <<envVars, storeVars, mainVars, groupVars, desc, terr, hist, rs>>

\* localStore.Push(desc, reader) with outcome out, issued by process p: the
\* store as it is afterwards.
Pushed(d, data, out) ==
    IF out = "ok" THEN [local EXCEPT ![d] = [has |-> TRUE, data |-> data]] ELSE local

\* A stream that is never closed.
StreamLeftOpen(r) == r

\* rc.Close(): closes an open stream; a second Close is a fault of its own.
Close(r) == [r EXCEPT !.state = IF @ = "open" THEN "closed" ELSE "reclosed"]

Logged(d, p) == pushLog \cup {[key |-> d, present |-> local[d].has, by |-> p]}

(***************************************************************************)
(* FetchSociArtifacts.                                                     *)
(***************************************************************************)
\* An index that is never written back to the local store.
IndexPushSkipped(loc) == FALSE

\* `if !local` before the push of the index.
NeedsIndexPush(loc) == ~loc

\* `if local { return nil }` in a task.
TaskSkipsStore(loc) == loc

\* A Store that swallows the error of Push.
StoreErrorSwallowed(out, p) == NoErr

\* artifactFetcher.Store: the error it returns for the outcome of Push.
StoreResult(out, p) == IF out = "ok" THEN NoErr ELSE Err("store", p)

\* A decode error that is not checked.
DecodeErrorIgnored(u) == FALSE

\* `if err := json.Unmarshal(...); err != nil`.
DecodeFailed(u) == u.err

\* An index push whose error is not checked.
IndexPushErrorIgnored(out) == FALSE

\* `if err != nil` after store.Push of the index.
IndexPushFailed(out) == out # "ok"

IdleProcs == [p \in Procs |-> "off"]

\* A return of FetchSociArtifacts with result r.
Return(r) ==
    /\ result' = r
    /\ mpc' = "done"
    /\ hist' = IF r = Success /\ ~isLocal[0]
               THEN [done |-> TRUE, bytes |-> indexBytes]
               ELSE hist

\* Entry: reference.Parse, newRemoteStore, newArtifactFetcher, digest.Parse,
\* up to the call of fetcher.Fetch for the index descriptor (size 0).
StartCall ==
    /\ mpc \in {"idle", "done"}
    /\ callerCancelled' = FALSE
    /\ localAtCall' = Present
    /\ later' = hist.done
    /\ pushLog' = {}
    /\ indexBytes' = <<>>
    /\ blobs' = <<>>
    /\ gerr' = NoErr
    /\ groupCancelled' = FALSE
    /\ firstFailed' = 0
    /\ desc' = [p \in Procs |-> Descriptor(IndexDigest, 0)]
    /\ rc' = [p \in Procs |-> NoStream]
    /\ isLocal' = [p \in Procs |-> FALSE]
    /\ ferr' = [p \in Procs |-> NoErr]
    /\ terr' = [p \in Procs |-> NoErr]
    /\ trace' = [p \in Procs |-> <<>>]
    /\ \E refOK \in BOOLEAN, dgstOK \in BOOLEAN :
        IF ~refOK
        THEN /\ result' = Err("ref_parse", 0)
             /\ mpc' = "done"
             /\ pc' = IdleProcs
        ELSE IF ~dgstOK
        THEN /\ result' = Err("digest_parse", 0)
             /\ mpc' = "done"
             /\ pc' = IdleProcs
        ELSE /\ result' = NoResult
             /\ mpc' = "fetch"
             /\ pc' = [IdleProcs EXCEPT ![0] = "local"]
    /\ UNCHANGED <<envVars, local, hist, rs>>

\* After fetcher.Fetch returned: the error check, io.Copy, Close and
\* json.Unmarshal.
MainRead ==
    /\ mpc = "fetch"
    /\ pc[0] = "fetched"
    /\ pc' = [pc EXCEPT ![0] = "done"]
    /\ IF ferr[0] # NoErr
       THEN /\ Return(Err("index_fetch", 0))
            /\ UNCHANGED <<rc, trace, indexBytes, blobs>>
       ELSE \E out \in ReadOutcomes(isLocal[0]) :
            /\ rc' = [rc EXCEPT ![0] = Close(@)]
            /\ IF out # "ok"
               THEN /\ trace' = [trace EXCEPT ![0] = Append(@, "read_fail")]
                    /\ Return(Err("read", 0))
                    /\ UNCHANGED <<indexBytes, blobs>>
               ELSE /\ indexBytes' = rc[0].data
                    /\ IF DecodeFailed(JsonUnmarshal(rc[0].data))
                       THEN /\ trace' = [trace EXCEPT ![0] = Append(@, "decode_fail")]
                            /\ Return(Err("decode", 0))
                            /\ UNCHANGED blobs
                       ELSE /\ trace' = [trace EXCEPT ![0] = Append(@, "decode_ok")]
                            /\ blobs' = JsonUnmarshal(rc[0].data).blobs
                            /\ mpc' = IF NeedsIndexPush(isLocal[0]) THEN "push" ELSE "launch"
                            /\ UNCHANGED <<result, hist>>
    /\ UNCHANGED <<envVars, storeVars, callerCancelled, localAtCall, later,
                   groupVars, desc, isLocal, ferr, terr, rs>>

\* `if !local`: store.Push of the buffered index bytes under the parsed digest.
MainPush ==
    /\ mpc = "push"
    /\ \E out \in PushOutcomes(IndexDigest, Cancelled(0)) :
        /\ local' = Pushed(IndexDigest, indexBytes, out)
        /\ pushLog' = Logged(IndexDigest, 0)
        /\ trace' = [trace EXCEPT ![0] = Append(@, "push_" \o out)]
        /\ IF IndexPushFailed(out)
           THEN Return(Err("index_push", 0))
           ELSE /\ mpc' = "launch"
                /\ UNCHANGED <<result, hist>>
    /\ UNCHANGED <<envVars, callerCancelled, indexBytes, blobs, localAtCall, later,
                   groupVars, pc, desc, rc, isLocal, ferr, terr, rs>>

\* errgroup.WithContext and one eg.Go per blob of the index.
Launched == {p \in Tasks : p <= Len(blobs)}

MainLaunch ==
    /\ mpc = "launch"
    /\ mpc' = "wait"
    /\ pc' = [p \in Procs |-> IF p \in Launched THEN "local" ELSE pc[p]]
    /\ desc' = [p \in Procs |-> IF p \in Launched THEN blobs[p] ELSE desc[p]]
    /\ UNCHANGED <<envVars, storeVars, result, callerCancelled, indexBytes,
                   blobs, localAtCall, later, groupVars, rc, isLocal, ferr, trace, terr, hist, rs>>

\* An error slot that every failing task overwrites.
GroupErrLastWins(old, new) == IF new # NoErr THEN new ELSE old

\* An error slot that drops the tasks' errors.
GroupErrDropped(old, new) == NoErr

\* The errgroup's error slot: errOnce keeps the first non-nil error.
GroupErr(old, new) == IF old = NoErr THEN new ELSE old

\* The errgroup cancels its context when a task returns a non-nil error.
GroupCancel(old, e) == old \/ e # NoErr

\* A task's function returns e to the errgroup.
TaskReturn(p, e) ==
    /\ pc' = [pc EXCEPT ![p] = "done"]
    /\ terr' = [terr EXCEPT ![p] = e]
    /\ gerr' = GroupErr(gerr, e)
    /\ groupCancelled' = GroupCancel(groupCancelled, e)
    /\ firstFailed' = IF firstFailed = 0 /\ e # NoErr THEN p ELSE firstFailed

\* The body of a task after fetcher.Fetch returned: the error check, the
\* local shortcut, fetcher.Store and the deferred Close.
TaskAfterFetch(p) ==
    /\ p \in Tasks
    /\ mpc = "wait"
    /\ pc[p] = "fetched"
    /\ IF ferr[p] # NoErr
       THEN /\ TaskReturn(p, Err("fetch", p))
            /\ UNCHANGED <<storeVars, rc, trace>>
       ELSE IF TaskSkipsStore(isLocal[p])
       THEN /\ TaskReturn(p, NoErr)
            /\ rc' = [rc EXCEPT ![p] = Close(@)]
            /\ UNCHANGED <<storeVars, trace>>
       ELSE \E out \in PushOutcomes(blobs[p].digest, Cancelled(p)) :
            /\ local' = Pushed(blobs[p].digest, rc[p].data, out)
            /\ pushLog' = Logged(blobs[p].digest, p)
            /\ trace' = [trace EXCEPT ![p] = Append(@, "push_" \o out)]
            /\ rc' = [rc EXCEPT ![p] = Close(@)]
            /\ TaskReturn(p, StoreResult(out, p))
    /\ UNCHANGED <<envVars, mainVars, desc, isLocal, ferr, hist, rs>>

\* A return that does not wait for the tasks.
WaitSkipped == TRUE

\* eg.Wait returns once every launched task has returned.
WaitReturns == \A p \in Launched : pc[p] = "done"

\* eg.Wait and the return.
MainWait ==
    /\ mpc = "wait"
    /\ WaitReturns
    /\ Return(IF gerr # NoErr THEN gerr ELSE Success)
    /\ UNCHANGED <<envVars, storeVars, callerCancelled, indexBytes, blobs,
                   localAtCall, later, groupVars, procVars, rs>>

\* The caller cancels the context it passed.
CallerCancel ==
    /\ mpc \notin {"idle", "done"}
    /\ ~callerCancelled
    /\ callerCancelled' = TRUE
    /\ UNCHANGED <<envVars, storeVars, mpc, result, indexBytes, blobs,
                   localAtCall, later, groupVars, procVars, hist, rs>>

(***************************************************************************)
(* The retry policy of the retryable client.                               *)
(***************************************************************************)
\* The outcome of one HTTP attempt: a response with a status code, or an
\* error and no response.  "url" stands for the URL errors the default policy
\* does not retry; "net" for every other error.
StatusCodes == 100..599
ErrKinds == {"net", "url"}
Attempts ==
    {[status |-> c, err |-> "nil"] : c \in StatusCodes}
        \cup {[status |-> 0, err |-> e] : e \in ErrKinds}

\* rhttp.DefaultRetryPolicy, as RetryStrategy documents it.
DefaultRetryPolicy(status, err) ==
    IF err # "nil" THEN err # "url"
    ELSE IF status = 429 THEN TRUE
    ELSE status >= 500 /\ status <= 599 /\ status # 501

\* A RetryStrategy that retries whenever the policy reports an error.
RetryOnPolicyError(retry, err2) == [retry |-> retry \/ err2 # "nil", err |-> err2, logged |-> retry]

\* RetryStrategy: what it returns and whether it logs, given what the
\* default policy returned.
RetryStrategy(retry, err2) == [retry |-> retry, err |-> err2, logged |-> retry]

RetryIdle == [phase |-> "off", status |-> 0, err |-> "nil", policy |-> FALSE,
              retry |-> FALSE, err2 |-> "nil", logged |-> FALSE]

\* CheckRetry is called with the outcome of an attempt.
CheckRetry ==
    /\ rs.phase = "attempt"
    /\ \E err2 \in {"nil", "policy"} :
        LET pol == DefaultRetryPolicy(rs.status, rs.err)
            r == RetryStrategy(pol, err2)
        IN rs' = [rs EXCEPT !.phase = "checked", !.policy = pol, !.retry = r.retry,
                            !.err2 = r.err, !.logged = r.logged]
    /\ UNCHANGED <<envVars, storeVars, mainVars, groupVars, procVars, hist>>

(***************************************************************************)
(* One request through the retryable client: attempt, CheckRetry, and, if  *)
(* the outcome is retryable and retries remain, a wait of Backoff.         *)
(* Durations are whole numbers of the clock's unit.                        *)
(***************************************************************************)
\* Largest RetryConfig.MaxRetries tried.
MaxRetriesCap == 2

\* The divisor BackoffStrategy passes to Jitter.
JitterDivisor == 8

\* (MinWait, MaxWait, MaxRetries) configurations.
RetryConfigs ==
    {[min |-> mn, max |-> mx, retryMax |-> r] :
        mn \in {0, 3, 8}, mx \in {16, 24}, r \in 0..MaxRetriesCap}

\* The delay a response's Retry-After header asks for; -1 when it has none.
Hints == {-1, 0, 40}
ClientStatuses == {200, 429, 501, 503}
ClientAttempts ==
    {[status |-> c, err |-> "nil", hint |-> h] : c \in ClientStatuses, h \in Hints}
        \cup {[status |-> 0, err |-> e, hint |-> -1] : e \in ErrKinds}

RECURSIVE Pow2(_)
Pow2(n) == IF n = 0 THEN 1 ELSE 2 * Pow2(n - 1)

\* rhttp.DefaultBackoff, as BackoffStrategy documents it: the Retry-After
\* delay of a 429 or 503 response if it has one, else min * 2^attemptNum,
\* limited by max.
DefaultBackoff(min, max, attemptNum, status, hint) ==
    IF status \in {429, 503} /\ hint >= 0 THEN hint
    ELSE IF min * Pow2(attemptNum) > max THEN max ELSE min * Pow2(attemptNum)

\* Jitter: rand.Int63n(duration/divisor) + duration.  Int63n panics when its
\* argument is not positive; otherwise it draws from 0..n-1.
Jitter(duration, divisor) ==
    IF duration \div divisor <= 0
    THEN [panic |-> TRUE, values |-> {}]
    ELSE [panic |-> FALSE,
          values |-> {duration + k : k \in 0..((duration \div divisor) - 1)}]

\* BackoffStrategy: the jittered default backoff.
BackoffStrategy(min, max, attemptNum, status, hint) ==
    Jitter(DefaultBackoff(min, max, attemptNum, status, hint), JitterDivisor)

\* A request as the client starts it: attempt number 0 has just ended in a.
ClientStart(cfg, a) ==
    [phase |-> "attempt", status |-> a.status, err |-> a.err, policy |-> FALSE,
     retry |-> FALSE, err2 |-> "nil", logged |-> FALSE,
     i |-> 0, hint |-> a.hint, min |-> cfg.min, max |-> cfg.max,
     retryMax |-> cfg.retryMax, base |-> 0, wait |-> 0]

\* After CheckRetry: stop on a terminal outcome or when no retry remains,
\* else compute the wait with Backoff.
ClientDecide ==
    /\ rs.phase = "checked"
    /\ IF ~rs.retry \/ rs.retryMax - rs.i <= 0
       THEN rs' = [rs EXCEPT !.phase = "done"]
       ELSE LET j == BackoffStrategy(rs.min, rs.max, rs.i, rs.status, rs.hint)
                d == DefaultBackoff(rs.min, rs.max, rs.i, rs.status, rs.hint)
            IN IF j.panic
               THEN rs' = [rs EXCEPT !.phase = "panic", !.base = d]
               ELSE \E w \in j.values :
                        rs' = [rs EXCEPT !.phase = "wait", !.base = d, !.wait = w]
    /\ UNCHANGED <<envVars, storeVars, mainVars, groupVars, procVars, hist>>

\* The wait is over and the next attempt ends in some outcome.
ClientAttempt ==
    /\ rs.phase = "wait"
    /\ \E a \in ClientAttempts :
        rs' = [rs EXCEPT !.phase = "attempt", !.i = @ + 1, !.status = a.status,
                         !.err = a.err, !.hint = a.hint, !.policy = FALSE,
                         !.retry = FALSE, !.err2 = "nil", !.logged = FALSE]
    /\ UNCHANGED <<envVars, storeVars, mainVars, groupVars, procVars, hist>>

InitFetcher ==
    /\ \E w \in Worlds : bad = w.bad /\ faulty = w.faulty
    /\ remoteIndex \in IndexBytes
    /\ \E S \in SUBSET Digests :
        local = [d \in Digests |->
                    IF d \in S THEN [has |-> TRUE, data |-> ContentOf(d)]
                    ELSE [has |-> FALSE, data |-> <<>>]]
    /\ pushLog = {}
    /\ mpc = "idle"
    /\ result = NoResult
    /\ callerCancelled = FALSE
    /\ indexBytes = <<>>
    /\ blobs = <<>>
    /\ localAtCall = {}
    /\ later = FALSE
    /\ gerr = NoErr
    /\ groupCancelled = FALSE
    /\ firstFailed = 0
    /\ pc = IdleProcs
    /\ desc = [p \in Procs |-> Descriptor(IndexDigest, 0)]
    /\ rc = [p \in Procs |-> NoStream]
    /\ isLocal = [p \in Procs |-> FALSE]
    /\ ferr = [p \in Procs |-> NoErr]
    /\ terr = [p \in Procs |-> NoErr]
    /\ trace = [p \in Procs |-> <<>>]
    /\ hist = [done |-> FALSE, bytes |-> <<>>]

Init ==
    /\ InitFetcher
    /\ hung = {}
    /\ rs = RetryIdle

Next ==
    \/ StartCall
    \/ \E p \in Procs : FetchLocal(p)
    \/ \E p \in Procs : FetchResolve(p)
    \/ \E p \in Procs : FetchRemote(p)
    \/ MainRead
    \/ MainPush
    \/ MainLaunch
    \/ \E p \in Tasks : TaskAfterFetch(p)
    \/ MainWait
    \/ CallerCancel

Spec == Init /\ [][Next]_vars

\* A call against a registry that never answers for one digest: a healthy
\* local store, empty at first.  Every step of the call and of its tasks is
\* taken if it stays possible (the Go scheduler runs every goroutine); the
\* caller's cancellation and a further call are not forced.
InitCancel ==
    /\ InitFetcher
    /\ bad = {}
    /\ ~faulty
    /\ Present = {}
    /\ \E d \in Digests : hung = {d}
    /\ rs = RetryIdle

Progress ==
    /\ \A p \in Procs : WF_vars(FetchLocal(p))
    /\ \A p \in Procs : WF_vars(FetchResolve(p))
    /\ \A p \in Procs : WF_vars(FetchRemote(p))
    /\ \A p \in Tasks : WF_vars(TaskAfterFetch(p))
    /\ WF_vars(MainRead)
    /\ WF_vars(MainPush)
    /\ WF_vars(MainLaunch)
    /\ WF_vars(MainWait)

SpecCancel == InitCancel /\ [][Next]_vars /\ Progress

\* The retry policy on its own: the fetcher stays as constructed, in a
\* healthy environment with an empty local store.
InitRetry ==
    /\ InitFetcher
    /\ bad = {}
    /\ ~faulty
    /\ remoteIndex = <<Header>>
    /\ Present = {}
    /\ hung = {}
    /\ \E a \in Attempts : rs = [RetryIdle EXCEPT !.phase = "attempt", !.status = a.status, !.err = a.err]

NextRetry == CheckRetry

SpecRetry == InitRetry /\ [][NextRetry]_vars

\* One request through the retryable client, for every configuration.
InitClient ==
    /\ InitFetcher
    /\ bad = {}
    /\ ~faulty
    /\ remoteIndex = <<Header>>
    /\ Present = {}
    /\ hung = {}
    /\ \E cfg \in RetryConfigs, a \in ClientAttempts : rs = ClientStart(cfg, a)

NextClient ==
    \/ CheckRetry
    \/ ClientDecide
    \/ ClientAttempt

SpecClient == InitClient /\ [][NextClient]_vars

(***************************************************************************)
(* Properties.                                                             *)
(***************************************************************************)
ResolveEvents == {"resolve_ok", "resolve_fail"}
RemoteEvents == {"remote_ok", "remote_fail"}

\* The descriptor process p called Fetch with.
OrigDesc(p) == IF p = 0 THEN Descriptor(IndexDigest, 0) ELSE blobs[p]

\* Fetch has returned to its caller in process p.
Returned(p) == pc[p] \in {"fetched", "done"}

Last(t) == t[Len(t)]

\* C1: a Fetch whose local-store fetch succeeded returns the local stream
\* with is-local = true and calls neither the resolver nor the remote store.
C1_LocalHit ==
    \A p \in Procs :
        (trace[p] # <<>> /\ trace[p][1] = "local_ok") =>
            /\ Returned(p)
            /\ isLocal[p]
            /\ ferr[p] = NoErr
            /\ rc[p].state # "none"
            /\ rc[p].data = local[OrigDesc(p).digest].data
            /\ \A i \in 1..Len(trace[p]) : trace[p][i] \notin ResolveEvents \cup RemoteEvents

\* A task's Fetch has just returned the local stream of its blob.
C1_Witness ==
    \E p \in Tasks : trace[p] = <<"local_ok">> /\ pc[p] = "fetched" /\ isLocal[p]

\* C2: a Fetch of a size-0 descriptor that is not served locally calls the
\* resolver before any remote-store fetch; when the resolver fails, Fetch
\* returns an error and the remote store is never called.
C2_ResolveFirst ==
    \A p \in Procs :
        LET t == trace[p] IN
        (t # <<>> /\ t[1] # "local_ok" /\ OrigDesc(p).size = 0) =>
            /\ Len(t) >= 2 => t[2] \in ResolveEvents
            /\ \A i \in 1..Len(t) : t[i] \in RemoteEvents => (i = 3 /\ t[2] = "resolve_ok")
            /\ (Len(t) >= 2 /\ t[2] = "resolve_fail") =>
                    /\ Returned(p)
                    /\ ferr[p] = Err("resolve", p)
                    /\ rc[p] = NoStream
                    /\ \A i \in 1..Len(t) : t[i] \notin RemoteEvents

\* The resolver failed for a size-0 blob that the local store does not hold.
C2_Witness ==
    \E p \in Tasks :
        /\ trace[p] = <<"local_miss", "resolve_fail">>
        /\ OrigDesc(p).size = 0
        /\ ~local[OrigDesc(p).digest].has
        /\ ~Cancelled(p)


\* C3: after a call that succeeded having fetched the index from remote, the
\* local store holds under the index digest exactly the bytes that were
\* parsed; in a later call the local store never reports the index missing,
\* and the index it serves is those bytes, returned with is-local = true and
\* without a call to the resolver or the remote store.
C3_RoundTrip ==
    /\ (mpc = "done" /\ result = Success /\ ~isLocal[0]) =>
            /\ local[IndexDigest] = [has |-> TRUE, data |-> indexBytes]
            /\ hist = [done |-> TRUE, bytes |-> indexBytes]
            /\ ~JsonUnmarshal(indexBytes).err
            /\ JsonUnmarshal(indexBytes).blobs = blobs
    /\ hist.done => local[IndexDigest] = [has |-> TRUE, data |-> hist.bytes]
    /\ (later /\ trace[0] # <<>>) =>
            /\ trace[0][1] # "local_miss"
            /\ trace[0][1] = "local_ok" =>
                    /\ isLocal[0]
                    /\ rc[0].data = hist.bytes
                    /\ \A i \in 1..Len(trace[0]) :
                            trace[0][i] \notin ResolveEvents \cup RemoteEvents

\* A later call has read and decoded the index from the local store, after
\* an earlier call fetched it from remote and succeeded.
C3_Witness ==
    /\ later
    /\ trace[0] = <<"local_ok", "decode_ok">>
    /\ isLocal[0]
    /\ Len(blobs) = MaxBlobs
    /\ mpc = "launch"

\* FetchSociArtifacts has returned after its tasks ran.
FanOutDone == mpc = "done" /\ trace[0] # <<>> /\ Last(trace[0]) \in {"decode_ok", "push_ok"}

ListedDigests == {blobs[i].digest : i \in 1..Len(blobs)}

\* C4: when FetchSociArtifacts returns an index without error, the local
\* store holds the index digest and the digest of every listed blob; from an
\* empty store it ends with one entry per distinct listed blob plus one.
C4_AllCached ==
    (mpc = "done" /\ result = Success) =>
        /\ local[IndexDigest].has
        /\ \A d \in ListedDigests : local[d].has
        /\ localAtCall = {} => Cardinality(Present) = Cardinality(ListedDigests) + 1

\* A call on an empty store that succeeded with MaxBlobs distinct blobs.
C4_Witness ==
    /\ mpc = "done"
    /\ result = Success
    /\ localAtCall = {}
    /\ Len(blobs) = MaxBlobs
    /\ Cardinality(ListedDigests) = Cardinality(BlobDigests)
    /\ Cardinality(Present) = Cardinality(BlobDigests) + 1

\* The case of C5: the tasks of a call have run in an environment whose local
\* store works and whose caller did not cancel, and the index lists one blob
\* that the registry cannot serve validly and that is not cached, while every
\* other listed blob is valid and reachable.
OneInvalidBlob ==
    /\ FanOutDone
    /\ ~faulty
    /\ ~callerCancelled
    /\ \E i \in 1..Len(blobs) :
        /\ blobs[i].digest \in bad
        /\ blobs[i].digest \notin localAtCall
        /\ \A j \in 1..Len(blobs) : j # i => blobs[j].digest \notin bad

ValidTasks == {p \in Launched : blobs[p].digest \notin bad}

\* C5 as claimed: with one invalid blob the call returns an error and the
\* local store holds every valid blob afterwards, whatever the interleaving.
C5_Claimed ==
    OneInvalidBlob =>
        /\ result # Success
        /\ \A p \in ValidTasks : local[blobs[p].digest].has

\* C5 as amended: with one invalid blob the call returns an error in every
\* interleaving, and a valid blob is missing from the local store afterwards
\* only if its task failed after a sibling's failure had already cancelled
\* the shared context; a valid task that is not overtaken by that
\* cancellation stores its blob.
C5_PartialFailure ==
    OneInvalidBlob =>
        /\ result # Success
        /\ result = gerr
        /\ \A p \in ValidTasks :
                \/ local[blobs[p].digest].has
                \/ /\ terr[p] # NoErr
                   /\ firstFailed \notin {0, p}
                   /\ groupCancelled

\* One invalid blob failed first, and a valid sibling stored its blob all the
\* same before the call returned the error.
C5_Witness ==
    /\ OneInvalidBlob
    /\ result # Success
    /\ \E p \in ValidTasks :
        /\ local[blobs[p].digest].has
        /\ blobs[p].digest \notin localAtCall
        /\ terr[p] = NoErr
        /\ firstFailed \notin {0, p}

\* C6: the fan-out returns success exactly when every task succeeded, and
\* otherwise the error of the task that was first to fail.
C6_FirstError ==
    FanOutDone =>
        /\ (result = Success) <=> (\A p \in Launched : terr[p] = NoErr)
        /\ \A p \in Launched : pc[p] = "done"
        /\ firstFailed # 0 =>
                /\ firstFailed \in Launched
                /\ terr[firstFailed] # NoErr
                /\ result = terr[firstFailed]
        /\ firstFailed = 0 => \A p \in Launched : terr[p] = NoErr

\* Two tasks failed, the second one only after the first had cancelled the
\* shared context, and the call returned the first one's error.
C6_Witness ==
    /\ FanOutDone
    /\ \E p, q \in Launched :
        /\ p # q
        /\ firstFailed = p
        /\ terr[p] # NoErr
        /\ terr[q] # NoErr
        /\ result = terr[p]
        /\ result # terr[q]

\* C7 as claimed: after a Fetch that returned successfully, the descriptor's
\* digest is present in the local store.
C7_Claimed ==
    \A p \in Procs :
        (pc[p] = "fetched" /\ ferr[p] = NoErr) => local[OrigDesc(p).digest].has

\* C8 as claimed: no push is issued for a digest that is already present in
\* the local store, and no entry is ever removed.  Stated for a local store
\* that works and a caller that does not cancel.
C8_Claimed ==
    (~faulty /\ ~callerCancelled) =>
        /\ \A r \in pushLog : ~r.present
        /\ localAtCall \subseteq Present

\* C9 as claimed: a local-store fetch error that is not a miss ends the Fetch
\* with an error, without a call to the resolver or the remote store.
C9_Claimed ==
    \A p \in Procs :
        (trace[p] # <<>> /\ trace[p][1] = "local_err") =>
            /\ Returned(p)
            /\ ferr[p] # NoErr
            /\ \A i \in 1..Len(trace[p]) : trace[p][i] \notin ResolveEvents \cup RemoteEvents

\* C10: RetryStrategy retries exactly on a network-level error that is not
\* one of the non-retryable URL errors, on status 429 and on a status in
\* 500..599 other than 501; it does not retry on 501 nor on 200..399; its
\* decision is the default policy's, and it logs exactly when it retries.
C10_RetryClassification ==
    rs.phase = "checked" =>
        /\ rs.retry <=> \/ rs.err = "net"
                        \/ /\ rs.err = "nil"
                           /\ \/ rs.status = 429
                              \/ rs.status \in 500..599 /\ rs.status # 501
        /\ (rs.err = "nil" /\ (rs.status = 501 \/ rs.status \in 200..399)) => ~rs.retry
        /\ rs.retry = rs.policy
        /\ rs.logged = rs.retry

\* The policy decided to retry a 503 response.
C10_Witness == rs.phase = "checked" /\ rs.status = 503 /\ rs.err = "nil" /\ rs.retry

\* C11 as claimed: for every base delay d >= 0 the backoff scheme produces,
\* a retry-after hint of 0 included, BackoffStrategy returns a delay r with
\* d <= r <= d + d/8 - 1 instead of failing.
C11_Claimed ==
    rs.phase \in {"wait", "panic"} =>
        /\ rs.phase = "wait"
        /\ rs.base <= rs.wait
        /\ rs.wait <= rs.base + (rs.base \div JitterDivisor) - 1

\* C12 as claimed: the wait between two attempts is never shorter than
\* MinWait and never longer than MaxWait.  Stated for responses that carry
\* no retry-after hint.
C12_Claimed ==
    (rs.phase = "wait" /\ rs.hint = -1) =>
        /\ rs.min <= rs.wait
        /\ rs.wait <= rs.max

\* C13 as claimed: a request makes at most MaxRetries + 1 attempts, and it
\* ends at the first attempt with a terminal outcome or after attempt
\* MaxRetries + 1.
C13_Claimed ==
    rs.phase # "off" =>
        /\ rs.i + 1 <= rs.retryMax + 1
        /\ rs.phase \in {"done", "panic"} => (~rs.retry \/ rs.i + 1 = rs.retryMax + 1)

\* A blocking call on a digest the registry does not answer for.
Blocked(p) == pc[p] \in {"resolve", "remote"} /\ desc[p].digest \in hung

\* C14: every call of materialize and of its tasks runs under a context that
\* is cancelled when the caller's is, so once the caller cancels, the
\* outstanding calls are aborted and materialize eventually returns.
C14_Cancellation ==
    /\ [](callerCancelled => \A p \in Procs : Cancelled(p))
    /\ (callerCancelled ~> mpc = "done")

C14_Witness ==
    /\ callerCancelled
    /\ \E p \in Tasks : Blocked(p)

\* Task p has fetched its blob from the registry and is at fetcher.Store.
AtStore(p) == mpc = "wait" /\ pc[p] = "fetched" /\ ferr[p] = NoErr /\ ~isLocal[p]

\* C15 as claimed: no two concurrently running blob tasks of one call push
\* to the same digest key, whatever the index lists, duplicates included.
C15_Claimed ==
    \A p \in Tasks, q \in Tasks :
        (p # q /\ AtStore(p) /\ AtStore(q)) => blobs[p].digest # blobs[q].digest

\* Fetch returned a stream to its caller in process p.
GotStream(p) == Returned(p) /\ ferr[p] = NoErr

\* C16: every stream a successful Fetch returned inside FetchSociArtifacts
\* is closed exactly once on every exit path of its consumer (local hit,
\* successful store, failed store, index read), so no stream is open when
\* FetchSociArtifacts returns.
C16_StreamsClosed ==
    /\ \A p \in Procs : rc[p].state # "reclosed"
    /\ \A p \in Procs : (pc[p] = "done" /\ GotStream(p)) => rc[p].state = "closed"
    /\ mpc = "done" => \A p \in Procs : rc[p].state \in {"none", "closed"}

C16_Witness ==
    /\ mpc = "done"
    /\ rc[0].state = "closed"
    /\ \E p \in Tasks, q \in Tasks :
        /\ rc[p].state = "closed" /\ terr[p].kind = "store"
        /\ rc[q].state = "closed" /\ isLocal[q]

\* C17: FetchSociArtifacts does not return while a task it launched is
\* running, and nothing is pushed by a call after it returned.
C17_WaitsForTasks ==
    /\ [](mpc = "done" => \A p \in Tasks : pc[p] \in {"off", "done"})
    /\ [][(mpc = "done" /\ mpc' = "done") => (local' = local /\ pushLog' \subseteq pushLog)]_vars

C17_Witness ==
    /\ mpc = "done"
    /\ \A p \in Tasks : pc[p] = "done"
    /\ \E p \in Tasks : [key |-> blobs[p].digest, present |-> FALSE, by |-> p] \in pushLog

\* C18: when the index came from the registry its push completes before any
\* blob task is launched, and if that push fails FetchSociArtifacts returns
\* its error and launches no task.
C18_IndexPushFirst ==
    /\ (\E p \in Tasks : pc[p] # "off") =>
            (isLocal[0] \/ (Last(trace[0]) = "push_ok" /\ local[IndexDigest].has))
    /\ "push_fail" \in {trace[0][i] : i \in DOMAIN trace[0]} =>
            /\ mpc = "done"
            /\ result = Err("index_push", 0)
            /\ \A p \in Tasks : pc[p] = "off" /\ trace[p] = <<>>

C18_Witness ==
    /\ mpc = "done"
    /\ trace[0] # <<>>
    /\ Last(trace[0]) = "push_fail"
    /\ Len(blobs) > 0

\* How many events of the set S process p has logged.
Count(p, S) == Cardinality({i \in DOMAIN trace[p] : trace[p][i] \in S})

\* C19: nothing above the transport retries.  Each process calls Fetch at
\* most once and pushes at most once; a Fetch calls the resolver at most
\* once, only for a descriptor of size 0 whose local fetch did not succeed,
\* and the remote store at most once; a failed resolve or remote fetch ends
\* the Fetch with an error.
C19_NoRetry ==
    \A p \in Procs :
        /\ Count(p, {"local_ok", "local_miss", "local_err"}) <= 1
        /\ Count(p, ResolveEvents) <= 1
        /\ Count(p, RemoteEvents) <= 1
        /\ Count(p, {"push_ok", "push_fail"}) <= 1
        /\ Count(p, ResolveEvents) = 1 =>
                (OrigDesc(p).size = 0 /\ trace[p][1] \in {"local_miss", "local_err"})
        /\ Count(p, {"resolve_fail"}) = 1 =>
                (Returned(p) /\ ferr[p] = Err("resolve", p) /\ Count(p, RemoteEvents) = 0)
        /\ Count(p, {"remote_fail"}) = 1 =>
                (Returned(p) /\ ferr[p] = Err("remote", p) /\ rc[p] = NoStream)

C19_Witness ==
    \E p \in Tasks, q \in Tasks :
        /\ pc[p] = "done" /\ Count(p, {"resolve_ok"}) = 1 /\ Count(p, {"remote_fail"}) = 1
        /\ pc[q] = "done" /\ OrigDesc(q).size # 0 /\ Count(q, {"push_ok"}) = 1

\* FetchSociArtifacts returned an error raised before the fan-out.
FailedEarly ==
    /\ mpc = "done"
    /\ result.kind \in {"ref_parse", "digest_parse", "index_fetch", "read", "decode"}

\* C20: a call that fails before the fan-out (malformed reference or
\* digest, index fetch, stream read or decode failure) pushes nothing,
\* leaves the local store as it was and launches no task; index bytes that
\* do not decode are never written.
C20_EarlyFailureFrame ==
    /\ FailedEarly =>
            /\ pushLog = {}
            /\ Present = localAtCall
            /\ \A d \in Present : local[d].data = ContentOf(d)
            /\ \A p \in Tasks : pc[p] = "off" /\ trace[p] = <<>>
    /\ (\E r \in pushLog : r.key = IndexDigest /\ r.by = 0) =>
            (indexBytes # <<>> /\ indexBytes[1] = Header)

C20_Witness ==
    /\ mpc = "done"
    /\ result = Err("decode", 0)
    /\ ~isLocal[0]
    /\ indexBytes = <<Junk>>
====
